---- MODULE Spec2Model ----
(***************************************************************************)
(* A model of the fibheap crate (src/src/lib.rs): Node<T>, FibonacciHeap<T> *)
(* with from_vec, push, pop, top, append, into_vec and the Iterator impl,   *)
(* and of the carry-merge helper map_update.  T is instantiated to small    *)
(* integers with their usual (total) PartialOrd; SpecPartial adds to them   *)
(* an element that is incomparable with every element (a partial order).   *)
(*                                                                          *)
(* The state is one heap (roots, top_index, len); the `other` argument of   *)
(* append is drawn from the heaps that from_vec, push and pop build within  *)
(* the bounds.  The HashMap deg_to_root is a function from a finite set of  *)
(* degrees to nodes; its iteration order in pop is chosen                   *)
(* nondeterministically.                                                    *)
(***************************************************************************)
EXTENDS Integers, Sequences, FiniteSets, TLC

\* ---------------------------------------------------------------- bounds
MaxVal == 2          \* values are 0..MaxVal
MaxNodes == 4        \* push, from_vec and append keep len within MaxNodes
MainSize == 6        \* SIZE of examples/main.rs, scaled down

\* the other of append is built by from_vec of at most MaxOther values
MaxOther == MaxNodes - 1

Values == 0..MaxVal

\* ------------------------------------------------------- element ordering
\* T: PartialOrd, instantiated to the integers and one more element, NaN,
\* that is incomparable with every element, itself included: as for f64,
\* both < and > answer false when an operand is NaN
NaN == -1
Lt(a, b) == a # NaN /\ b # NaN /\ a < b
Gt(a, b) == a # NaN /\ b # NaN /\ a > b

\* the values of SpecPartial: as many as Values, one of them NaN
PartialValues == {NaN} \cup (0..(MaxVal - 1))

\* ------------------------------------------------------------ Option / ()
None == [tag |-> "None", val |-> <<>>]
Some(v) == [tag |-> "Some", val |-> <<v>>]
Vec(s) == [tag |-> "Vec", val |-> s]
Unit == [tag |-> "Unit", val |-> <<>>]
Panic == [tag |-> "Panic", val |-> <<>>]

\* ------------------------------------------------------------------ Node
RECURSIVE NodeValues(_), ForestValues(_), map_update(_, _), children_loop(_, _),
          scan_loop(_, _, _, _), from_vec_loop(_, _, _), rebuild_loop(_, _, _),
          into_vec(_), map_update_gt(_, _), map_update_drop(_, _), into_vec_rev(_),
          rebuild_loop_lt(_, _, _), map_update_ordered(_, _), map_update_calls(_, _), from_vec_loop_by_key(_, _, _), from_vec_loop_ge(_, _, _), from_vec_loop_lt(_, _, _), rebuild_loop_noswap(_, _, _), map_update_noswap(_, _)

\* Node::new
NodeNew(value) == [value |-> value, children |-> <<>>]

\* Node::degree
degree(node) == Len(node.children)

\* push_child, putting the child in front of the others
push_child_front(node, child) == [node EXCEPT !.children = <<child>> \o @]

\* Node::push_child
push_child(node, child) == [node EXCEPT !.children = Append(@, child)]

\* the values stored in a tree / in a forest, in pre-order
NodeValues(node) == <<node.value>> \o ForestValues(node.children)
ForestValues(nodes) ==
    IF nodes = <<>> THEN <<>>
    ELSE NodeValues(Head(nodes)) \o ForestValues(Tail(nodes))

\* ---------------------------------------------------------- FibonacciHeap
\* impl Default
Default == [roots |-> <<>>, top_index |-> 0, len |-> 0]

\* FibonacciHeap::new
new == Default

\* FibonacciHeap::len
heap_len(h) == h.len

\* is_empty, taking a heap of one node for empty
is_empty_le1(h) == h.len <= 1

\* FibonacciHeap::is_empty
is_empty(h) == h.len = 0

\* the for loop of from_vec, with the comparison reversed
from_vec_loop_lt(vec, min_cell, roots) ==
    IF vec = <<>> THEN
        IF min_cell # <<>> THEN Append(roots, NodeNew(min_cell[1])) ELSE roots
    ELSE
        LET value == Head(vec) IN
        IF min_cell # <<>> THEN
            LET min_val == min_cell[1]
                swap == Lt(value, min_val)
                value2 == IF swap THEN min_val ELSE value
                min_val2 == IF swap THEN value ELSE min_val
            IN  from_vec_loop_lt(Tail(vec), <<value2>>, Append(roots, NodeNew(min_val2)))
        ELSE from_vec_loop_lt(Tail(vec), <<value>>, roots)

\* the for loop of from_vec: min_cell is <<>> (None) or <<v>> (Some(v))
from_vec_loop(vec, min_cell, roots) ==
    IF vec = <<>> THEN
        IF min_cell # <<>> THEN Append(roots, NodeNew(min_cell[1])) ELSE roots
    ELSE
        LET value == Head(vec) IN
        IF min_cell # <<>> THEN
            LET min_val == min_cell[1]
                swap == Gt(value, min_val)
                value2 == IF swap THEN min_val ELSE value
                min_val2 == IF swap THEN value ELSE min_val
            IN  from_vec_loop(Tail(vec), <<value2>>, Append(roots, NodeNew(min_val2)))
        ELSE from_vec_loop(Tail(vec), <<value>>, roots)

\* T instantiated to items [key, pos] whose PartialOrd compares key alone:
\* two items with equal keys compare equal and still differ
Tagged(vec) == [i \in DOMAIN vec |-> [key |-> vec[i], pos |-> i]]
GtByKey(a, b) == Gt(a.key, b.key)

\* the for loop of from_vec on such items, swapping on >= instead of >
from_vec_loop_ge(vec, min_cell, roots) ==
    IF vec = <<>> THEN
        IF min_cell # <<>> THEN Append(roots, NodeNew(min_cell[1])) ELSE roots
    ELSE
        LET value == Head(vec) IN
        IF min_cell # <<>> THEN
            LET min_val == min_cell[1]
                swap == ~GtByKey(min_val, value)
                value2 == IF swap THEN min_val ELSE value
                min_val2 == IF swap THEN value ELSE min_val
            IN  from_vec_loop_ge(Tail(vec), <<value2>>, Append(roots, NodeNew(min_val2)))
        ELSE from_vec_loop_ge(Tail(vec), <<value>>, roots)

\* the for loop of from_vec on such items
from_vec_loop_by_key(vec, min_cell, roots) ==
    IF vec = <<>> THEN
        IF min_cell # <<>> THEN Append(roots, NodeNew(min_cell[1])) ELSE roots
    ELSE
        LET value == Head(vec) IN
        IF min_cell # <<>> THEN
            LET min_val == min_cell[1]
                swap == GtByKey(value, min_val)
                value2 == IF swap THEN min_val ELSE value
                min_val2 == IF swap THEN value ELSE min_val
            IN  from_vec_loop_by_key(Tail(vec), <<value2>>, Append(roots, NodeNew(min_val2)))
        ELSE from_vec_loop_by_key(Tail(vec), <<value>>, roots)

\* the roots of from_vec(vec) with each value tagged by its position in vec
from_vec_by_key(vec) == from_vec_loop_by_key(Tagged(vec), <<>>, <<>>)

\* FibonacciHeap::from_vec
from_vec(vec) ==
    IF vec = <<>> THEN new
    ELSE [roots |-> from_vec_loop(vec, <<>>, <<>>),
          top_index |-> Len(vec) - 1,
          len |-> Len(vec)]

\* top, reading the first root instead of the root at top_index
top_first(h) ==
    IF h.len = 0 THEN None
    ELSE IF h.roots = <<>> THEN Panic
    ELSE Some(h.roots[1].value)

\* FibonacciHeap::top (roots[top_index] panics when out of bounds)
top(h) ==
    IF is_empty(h) THEN None
    ELSE IF h.top_index >= Len(h.roots) THEN Panic
    ELSE Some(h.roots[h.top_index + 1].value)

\* push, with the comparison against the current minimum reversed
push_gt(h, value) ==
    IF h.roots # <<>> /\ h.top_index >= Len(h.roots) THEN [ret |-> Panic, heap |-> h]
    ELSE
        LET ti == IF h.roots # <<>> /\ Gt(value, h.roots[h.top_index + 1].value)
                  THEN Len(h.roots) ELSE h.top_index
        IN  [ret |-> Unit,
             heap |-> [roots |-> Append(h.roots, NodeNew(value)),
                       top_index |-> ti,
                       len |-> h.len + 1]]

\* push, never retargeting top_index
push_no_top(h, value) ==
    [ret |-> Unit,
     heap |-> [roots |-> Append(h.roots, NodeNew(value)),
               top_index |-> h.top_index,
               len |-> h.len + 1]]

\* push, selecting the new root also when value equals the current minimum
push_le(h, value) ==
    IF h.roots # <<>> /\ h.top_index >= Len(h.roots) THEN [ret |-> Panic, heap |-> h]
    ELSE
        LET ti == IF h.roots # <<>> /\ ~Gt(value, h.roots[h.top_index + 1].value)
                  THEN Len(h.roots) ELSE h.top_index
        IN  [ret |-> Unit,
             heap |-> [roots |-> Append(h.roots, NodeNew(value)),
                       top_index |-> ti,
                       len |-> h.len + 1]]

\* FibonacciHeap::push; the result is [ret, heap]
push(h, value) ==
    IF h.roots # <<>> /\ h.top_index >= Len(h.roots) THEN [ret |-> Panic, heap |-> h]
    ELSE
        LET ti == IF h.roots # <<>> /\ Lt(value, h.roots[h.top_index + 1].value)
                  THEN Len(h.roots) ELSE h.top_index
        IN  [ret |-> Unit,
             heap |-> [roots |-> Append(h.roots, NodeNew(value)),
                       top_index |-> ti,
                       len |-> h.len + 1]]

\* map_update, with the larger value made the root
map_update_gt(deg_to_root, node) ==
    LET deg == degree(node) IN
    IF deg \in DOMAIN deg_to_root THEN
        LET root == deg_to_root[deg]
            removed == [d \in (DOMAIN deg_to_root) \ {deg} |-> deg_to_root[d]]
            swap == Gt(node.value, root.value)
            root2 == IF swap THEN node ELSE root
            node2 == IF swap THEN root ELSE node
        IN  map_update_gt(removed, push_child(root2, node2))
    ELSE [d \in (DOMAIN deg_to_root) \cup {deg} |->
             IF d = deg THEN node ELSE deg_to_root[d]]

\* map_update, losing the node that should become a child
map_update_drop(deg_to_root, node) ==
    LET deg == degree(node) IN
    IF deg \in DOMAIN deg_to_root THEN
        LET root == deg_to_root[deg]
            removed == [d \in (DOMAIN deg_to_root) \ {deg} |-> deg_to_root[d]]
            swap == Lt(node.value, root.value)
            root2 == IF swap THEN node ELSE root
        IN  map_update_drop(removed, root2)
    ELSE [d \in (DOMAIN deg_to_root) \cup {deg} |->
             IF d = deg THEN node ELSE deg_to_root[d]]

\* map_update, never swapping: the node found in the map stays the root
map_update_noswap(deg_to_root, node) ==
    LET deg == degree(node) IN
    IF deg \in DOMAIN deg_to_root THEN
        LET root == deg_to_root[deg]
            removed == [d \in (DOMAIN deg_to_root) \ {deg} |-> deg_to_root[d]]
        IN  map_update_noswap(removed, push_child(root, node))
    ELSE [d \in (DOMAIN deg_to_root) \cup {deg} |->
             IF d = deg THEN node ELSE deg_to_root[d]]

\* map_update, inserting the merged root without the recursive call
map_update_once(deg_to_root, node) ==
    LET deg == degree(node) IN
    IF deg \in DOMAIN deg_to_root THEN
        LET root == deg_to_root[deg]
            removed == [d \in (DOMAIN deg_to_root) \ {deg} |-> deg_to_root[d]]
            swap == Lt(node.value, root.value)
            root2 == IF swap THEN node ELSE root
            node2 == IF swap THEN root ELSE node
            merged == push_child(root2, node2)
        IN  [d \in (DOMAIN removed) \cup {degree(merged)} |->
                IF d = degree(merged) THEN merged ELSE removed[d]]
    ELSE [d \in (DOMAIN deg_to_root) \cup {deg} |->
             IF d = deg THEN node ELSE deg_to_root[d]]

\* the calls of map_update that map_update(deg_to_root, node) makes, itself
\* first, each as [deg_to_root, node]: the map after deg_to_root.remove(&deg)
\* and the merged root are the arguments of the recursive call
map_update_calls(deg_to_root, node) ==
    LET deg == degree(node) IN
    IF deg \in DOMAIN deg_to_root THEN
        LET root == deg_to_root[deg]
            removed == [d \in (DOMAIN deg_to_root) \ {deg} |-> deg_to_root[d]]
            swap == Lt(node.value, root.value)
            root2 == IF swap THEN node ELSE root
            node2 == IF swap THEN root ELSE node
        IN  <<[deg_to_root |-> deg_to_root, node |-> node]>>
                \o map_update_calls(removed, push_child(root2, node2))
    ELSE <<[deg_to_root |-> deg_to_root, node |-> node]>>

\* map_update, attaching a node only when the comparison orders the two
\* and losing it when they are equal or incomparable
map_update_ordered(deg_to_root, node) ==
    LET deg == degree(node) IN
    IF deg \in DOMAIN deg_to_root THEN
        LET root == deg_to_root[deg]
            removed == [d \in (DOMAIN deg_to_root) \ {deg} |-> deg_to_root[d]]
            swap == Lt(node.value, root.value)
            root2 == IF swap THEN node ELSE root
            node2 == IF swap THEN root ELSE node
        IN  IF Lt(node.value, root.value) \/ Gt(node.value, root.value)
            THEN map_update_ordered(removed, push_child(root2, node2))
            ELSE [d \in DOMAIN deg_to_root |-> deg_to_root[d]]
    ELSE [d \in (DOMAIN deg_to_root) \cup {deg} |->
             IF d = deg THEN node ELSE deg_to_root[d]]

\* map_update: the carry-merge on the degree -> root map
map_update(deg_to_root, node) ==
    LET deg == degree(node) IN
    IF deg \in DOMAIN deg_to_root THEN
        LET root == deg_to_root[deg]
            removed == [d \in (DOMAIN deg_to_root) \ {deg} |-> deg_to_root[d]]
            swap == Lt(node.value, root.value)
            root2 == IF swap THEN node ELSE root
            node2 == IF swap THEN root ELSE node
        IN  map_update(removed, push_child(root2, node2))
    ELSE [d \in (DOMAIN deg_to_root) \cup {deg} |->
             IF d = deg THEN node ELSE deg_to_root[d]]

\* the inner loop of pop over the children of the root at top_index
children_loop(deg_to_root, children) ==
    IF children = <<>> THEN deg_to_root
    ELSE children_loop(map_update(deg_to_root, Head(children)), Tail(children))

\* the scan loop of pop over roots.into_iter().enumerate(), from index ix;
\* st is [deg_to_root, ret]
scan_loop(roots, ix, top_index, st) ==
    IF ix >= Len(roots) THEN st
    ELSE
        LET node == roots[ix + 1] IN
        IF ix = top_index THEN
            scan_loop(roots, ix + 1, top_index,
                      [deg_to_root |-> children_loop(st.deg_to_root, node.children),
                       ret |-> Some(node.value)])
        ELSE
            scan_loop(roots, ix + 1, top_index,
                      [deg_to_root |-> map_update(st.deg_to_root, node),
                       ret |-> st.ret])

\* deg_to_root and ret after the scan loop of pop
Scan(h) == scan_loop(h.roots, 0, h.top_index, [deg_to_root |-> <<>>, ret |-> None])

\* the rebuild loop, pushing the nodes in iteration order with no swap
rebuild_loop_noswap(nodes, min_cell, roots) ==
    IF nodes = <<>> THEN
        IF min_cell # <<>> THEN Append(roots, min_cell[1]) ELSE roots
    ELSE
        LET node == Head(nodes) IN
        IF min_cell # <<>> THEN
            rebuild_loop_noswap(Tail(nodes), <<node>>, Append(roots, min_cell[1]))
        ELSE rebuild_loop_noswap(Tail(nodes), <<node>>, roots)

\* the rebuild loop, with the comparison of node and other reversed
rebuild_loop_lt(nodes, min_cell, roots) ==
    IF nodes = <<>> THEN
        IF min_cell # <<>> THEN Append(roots, min_cell[1]) ELSE roots
    ELSE
        LET node == Head(nodes) IN
        IF min_cell # <<>> THEN
            LET other == min_cell[1]
                swap == Lt(node.value, other.value)
                node2 == IF swap THEN other ELSE node
                other2 == IF swap THEN node ELSE other
            IN  rebuild_loop_lt(Tail(nodes), <<node2>>, Append(roots, other2))
        ELSE rebuild_loop_lt(Tail(nodes), <<node>>, roots)

\* the rebuild loop of pop over the map's nodes in iteration order
rebuild_loop(nodes, min_cell, roots) ==
    IF nodes = <<>> THEN
        IF min_cell # <<>> THEN Append(roots, min_cell[1]) ELSE roots
    ELSE
        LET node == Head(nodes) IN
        IF min_cell # <<>> THEN
            LET other == min_cell[1]
                swap == Gt(node.value, other.value)
                node2 == IF swap THEN other ELSE node
                other2 == IF swap THEN node ELSE other
            IN  rebuild_loop(Tail(nodes), <<node2>>, Append(roots, other2))
        ELSE rebuild_loop(Tail(nodes), <<node>>, roots)

\* the iteration orders a HashMap with key set S may produce
IterOrders(S) ==
    {f \in [1..Cardinality(S) -> S] : \A i, j \in DOMAIN f : f[i] = f[j] => i = j}

\* FibonacciHeap::pop; the set of results [ret, heap], one per iteration
\* order of deg_to_root
pop(h) ==
    IF is_empty(h) THEN {[ret |-> None, heap |-> h]}
    ELSE IF h.top_index >= Len(h.roots) THEN {[ret |-> Panic, heap |-> h]}
    ELSE
        LET deg_to_root == Scan(h).deg_to_root
            ret == Scan(h).ret
        IN  IF DOMAIN deg_to_root # {} THEN
                {[ret |-> ret,
                  heap |-> [roots |-> rebuild_loop([i \in DOMAIN f |-> deg_to_root[f[i]]],
                                                   <<>>, <<>>),
                            top_index |-> Cardinality(DOMAIN deg_to_root) - 1,
                            len |-> h.len - 1]]
                 : f \in IterOrders(DOMAIN deg_to_root)}
            ELSE {[ret |-> ret, heap |-> [roots |-> <<>>, top_index |-> 0, len |-> 0]]}

\* append, adding the number of other's roots instead of other.len
append_rootcount(self, other) ==
    IF is_empty(other) THEN [ret |-> Unit, heap |-> self]
    ELSE IF is_empty(self) THEN
        [ret |-> Unit,
         heap |-> [roots |-> other.roots, top_index |-> other.top_index, len |-> other.len]]
    ELSE IF top(self) = Panic \/ other.top_index >= Len(other.roots) THEN
        [ret |-> Panic, heap |-> self]
    ELSE
        LET ti == IF Gt(top(self).val[1], other.roots[other.top_index + 1].value)
                  THEN Len(self.roots) + other.top_index ELSE self.top_index
        IN  [ret |-> Unit,
             heap |-> [roots |-> self.roots \o other.roots,
                       top_index |-> ti,
                       len |-> self.len + Len(other.roots)]]

\* append, with the comparison of the two minima reversed
append_lt(self, other) ==
    IF is_empty(other) THEN [ret |-> Unit, heap |-> self]
    ELSE IF is_empty(self) THEN
        [ret |-> Unit,
         heap |-> [roots |-> other.roots, top_index |-> other.top_index, len |-> other.len]]
    ELSE IF top(self) = Panic \/ other.top_index >= Len(other.roots) THEN
        [ret |-> Panic, heap |-> self]
    ELSE
        LET ti == IF Lt(top(self).val[1], other.roots[other.top_index + 1].value)
                  THEN Len(self.roots) + other.top_index ELSE self.top_index
        IN  [ret |-> Unit,
             heap |-> [roots |-> self.roots \o other.roots,
                       top_index |-> ti,
                       len |-> self.len + other.len]]

\* append, adopting other's roots and len but not its top_index
append_keep_top(self, other) ==
    IF is_empty(other) THEN [ret |-> Unit, heap |-> self]
    ELSE IF is_empty(self) THEN
        [ret |-> Unit,
         heap |-> [roots |-> other.roots, top_index |-> self.top_index, len |-> other.len]]
    ELSE IF top(self) = Panic \/ other.top_index >= Len(other.roots) THEN
        [ret |-> Panic, heap |-> self]
    ELSE
        LET ti == IF Gt(top(self).val[1], other.roots[other.top_index + 1].value)
                  THEN Len(self.roots) + other.top_index ELSE self.top_index
        IN  [ret |-> Unit,
             heap |-> [roots |-> self.roots \o other.roots,
                       top_index |-> ti,
                       len |-> self.len + other.len]]

\* append, taking other's minimum also when the two minima are equal
append_ge(self, other) ==
    IF is_empty(other) THEN [ret |-> Unit, heap |-> self]
    ELSE IF is_empty(self) THEN
        [ret |-> Unit,
         heap |-> [roots |-> other.roots, top_index |-> other.top_index, len |-> other.len]]
    ELSE IF top(self) = Panic \/ other.top_index >= Len(other.roots) THEN
        [ret |-> Panic, heap |-> self]
    ELSE
        LET ti == IF ~Lt(top(self).val[1], other.roots[other.top_index + 1].value)
                  THEN Len(self.roots) + other.top_index ELSE self.top_index
        IN  [ret |-> Unit,
             heap |-> [roots |-> self.roots \o other.roots,
                       top_index |-> ti,
                       len |-> self.len + other.len]]

\* FibonacciHeap::append; the result is [ret, heap]
append(self, other) ==
    IF is_empty(other) THEN [ret |-> Unit, heap |-> self]
    ELSE IF is_empty(self) THEN
        [ret |-> Unit,
         heap |-> [roots |-> other.roots, top_index |-> other.top_index, len |-> other.len]]
    ELSE IF top(self) = Panic \/ other.top_index >= Len(other.roots) THEN
        [ret |-> Panic, heap |-> self]
    ELSE
        LET ti == IF Gt(top(self).val[1], other.roots[other.top_index + 1].value)
                  THEN Len(self.roots) + other.top_index ELSE self.top_index
        IN  [ret |-> Unit,
             heap |-> [roots |-> self.roots \o other.roots,
                       top_index |-> ti,
                       len |-> self.len + other.len]]

\* into_vec, inserting each value at the front of the vector
into_vec_rev(h) ==
    UNION {IF o.ret.tag = "Some"
           THEN {rest \o o.ret.val : rest \in into_vec_rev(o.heap)}
           ELSE {<<>>}
           : o \in pop(h)}

\* FibonacciHeap::into_vec; the set of vectors the while-let loop may build
into_vec(h) ==
    UNION {IF o.ret.tag = "Some"
           THEN {o.ret.val \o rest : rest \in into_vec(o.heap)}
           ELSE {<<>>}
           : o \in pop(h)}


\* ------------------------------------------------- bookkeeping operators
RECURSIVE RemoveOne(_, _), RemoveAll(_, _), Insert(_, _), Ascending(_)

\* seq without the first occurrence of v
RemoveOne(seq, v) ==
    IF seq = <<>> THEN <<>>
    ELSE IF Head(seq) = v THEN Tail(seq)
    ELSE <<Head(seq)>> \o RemoveOne(Tail(seq), v)

\* seq without one occurrence of each element of vs
RemoveAll(seq, vs) ==
    IF vs = <<>> THEN seq ELSE RemoveAll(RemoveOne(seq, Head(vs)), Tail(vs))

\* v inserted into the non-decreasing sequence seq
Insert(seq, v) ==
    IF seq = <<>> THEN <<v>>
    ELSE IF v <= Head(seq) THEN <<v>> \o seq
    ELSE <<Head(seq)>> \o Insert(Tail(seq), v)

\* the non-decreasing arrangement of seq
Ascending(seq) == IF seq = <<>> THEN <<>> ELSE Insert(Ascending(Tail(seq)), Head(seq))

IsSorted(seq) == \A i \in 1..(Len(seq) - 1) : seq[i] <= seq[i + 1]

IsPrefix(s, t) == Len(s) <= Len(t) /\ s = SubSeq(t, 1, Len(s))

\* all sequences over S of length at most n
SeqsUpTo(S, n) == UNION {[1..k -> S] : k \in 0..n}

\* the heaps append may be given, as [heap, vals] with vals the values put
\* in and not popped: from_vec(vec), that followed by one push, and that
\* followed by one pop
OtherPlain(vec) == {[heap |-> from_vec(vec), vals |-> vec]}

OtherPushed(vec) ==
    {[heap |-> push(from_vec(vec), v).heap, vals |-> Append(vec, v)] : v \in Values}

OtherPopped(vec) ==
    {[heap |-> o.heap, vals |-> RemoveOne(vec, o.ret.val[1])] :
        o \in {q \in pop(from_vec(vec)) : q.ret.tag = "Some"}}

\* vectors of tests::pop and tests::append
TestVecA == <<3, 5, 1, 9>>
TestVecB == <<8, 2, 7, 4, 6>>

\* vec of examples/main.rs: SIZE - 1, ..., 1, 0
MainVec == [i \in 1..MainSize |-> MainSize - i]

\* ----------------------------------------------------------------- state
VARIABLES
    roots,      \* FibonacciHeap.roots
    top_index,  \* FibonacciHeap.top_index
    len,        \* FibonacciHeap.len
    kind,       \* how the heap came about: "new", "from_vec" (from_vec, then
                \* pops only), "push" (new, then pushes only, then pops only),
                \* "append" (last changed by append), "mixed", "moved"
    start,      \* the values the heap was given and had not returned, right
                \* after its last change other than pop, in ascending order
    n0,         \* len() right after that change
    out,        \* the values popped since then
    ended,      \* a pop has returned None since then
    op,         \* the name of the last operation
    arg,        \* the argument of the last operation
    ret         \* the return value of the last operation

vars == <<roots, top_index, len, kind, start, n0, out, ended, op, arg, ret>>

\* the heap as a value
Self == [roots |-> roots, top_index |-> top_index, len |-> len]

\* the values the heap should hold now
Remaining == RemoveAll(start, out)

Live == kind # "moved"

Init ==
    /\ roots = new.roots /\ top_index = new.top_index /\ len = new.len
    /\ kind = "new"
    /\ start = <<>>
    /\ n0 = 0
    /\ out = <<>>
    /\ ended = FALSE
    /\ op = "new"
    /\ arg = <<>>
    /\ ret = Unit

\* the heap becomes h by operation name with argument a; it then holds vals
Changed(h, name, a, vals, k) ==
    /\ roots' = h.roots /\ top_index' = h.top_index /\ len' = h.len
    /\ kind' = k
    /\ start' = vals
    /\ n0' = heap_len(h)
    /\ out' = <<>>
    /\ ended' = FALSE
    /\ op' = name
    /\ arg' = a

\* let heap = FibonacciHeap::new()
New ==
    /\ Changed(new, "new", <<>>, <<>>, "new")
    /\ ret' = Unit

\* let heap = FibonacciHeap::from_vec(vec)
FromVec(vec) ==
    /\ Len(vec) <= MaxNodes
    /\ Changed(from_vec(vec), "from_vec", vec, Ascending(vec), "from_vec")
    /\ ret' = Unit

\* from_vec on a fresh binding, for every vector within the bounds
FromVecAny ==
    /\ kind = "new"
    /\ \E vec \in SeqsUpTo(Values, MaxNodes) : FromVec(vec)

\* the heap of tests::pop and tests::append
FromTestVec ==
    /\ kind = "new"
    /\ Changed(from_vec(TestVecA), "from_vec", TestVecA, Ascending(TestVecA), "from_vec")
    /\ ret' = Unit

\* the heap of examples/main.rs
FromMainVec ==
    /\ kind = "new"
    /\ Changed(from_vec(MainVec), "from_vec", MainVec, Ascending(MainVec), "from_vec")
    /\ ret' = Unit

\* heap.push(value)
Push(value) ==
    /\ Live
    /\ len < MaxNodes
    /\ LET r == push(Self, value)
           pure == kind \in {"new", "push"} /\ out = <<>>
       IN
        /\ Changed(r.heap, "push", value,
                   Insert(Remaining, value),
                   IF pure THEN "push" ELSE "mixed")
        /\ ret' = r.ret

\* heap.pop()
Pop ==
    /\ Live
    /\ \E o \in pop(Self) :
        /\ roots' = o.heap.roots /\ top_index' = o.heap.top_index /\ len' = o.heap.len
        /\ ret' = o.ret
        /\ out' = IF o.ret.tag = "Some" THEN out \o o.ret.val ELSE out
        /\ ended' = (ended \/ o.ret = None)
    /\ op' = "pop"
    /\ arg' = <<>>
    /\ UNCHANGED <<kind, start, n0>>

\* Iterator::next, which is self.pop()
IterNext == Pop

\* heap.top()
Top ==
    /\ Live
    /\ ret' = top(Self)
    /\ op' = "top"
    /\ arg' = <<>>
    /\ UNCHANGED <<roots, top_index, len, kind, start, n0, out, ended>>

AppendWith(x) ==
    LET r == append(Self, x.heap) IN
    /\ Changed(r.heap, "append", [self |-> Self, other |-> x.heap],
               Ascending(Remaining \o x.vals), "append")
    /\ ret' = r.ret

\* heap.append(other)
Append_(x) ==
    /\ Live
    /\ len + x.heap.len <= MaxNodes
    /\ AppendWith(x)

\* append with every other within the bounds
AppendAny ==
    /\ Live
    /\ \E k \in 0..MaxOther :
          \/ /\ k <= MaxNodes - len
             /\ \E vec \in [1..k -> Values] : \E x \in OtherPlain(vec) : Append_(x)
          \/ /\ k < MaxNodes - len /\ k < MaxOther
             /\ \E vec \in [1..k -> Values] : \E x \in OtherPushed(vec) : Append_(x)
          \/ /\ k <= MaxNodes - len + 1
             /\ \E x \in UNION {OtherPopped(vec) : vec \in [1..k -> Values]} : Append_(x)

\* heap.append(heap2) of tests::append
AppendTest ==
    /\ Live
    /\ kind = "from_vec" /\ start = Ascending(TestVecA) /\ out = <<>>
    /\ AppendWith([heap |-> from_vec(TestVecB), vals |-> TestVecB])

\* heap.into_vec(); the heap is moved
IntoVec ==
    /\ Live
    /\ \E vec \in into_vec(Self) : ret' = Vec(vec)
    /\ roots' = <<>> /\ top_index' = 0 /\ len' = 0
    /\ kind' = "moved"
    /\ start' = <<>> /\ n0' = 0 /\ out' = <<>> /\ ended' = FALSE
    /\ op' = "into_vec"
    /\ arg' = <<>>

Next ==
    \/ New
    \/ FromVecAny
    \/ FromTestVec
    \/ FromMainVec
    \/ \E value \in Values : Push(value)
    \/ Pop
    \/ IterNext
    \/ Top
    \/ AppendAny
    \/ AppendTest
    \/ IntoVec

Spec == Init /\ [][Next]_vars

\* ------------------------------------- the same program on a partial order
\* from_vec on a fresh binding, for every vector over PartialValues
FromVecPartial ==
    /\ kind = "new"
    /\ \E vec \in SeqsUpTo(PartialValues, MaxNodes) : FromVec(vec)

\* heap.push(value) for value in PartialValues
PushPartial == \E value \in PartialValues : Push(value)

\* heap.pop(); the values popped are kept in ascending order, the order
\* they came out in being unspecified here
PopPartial ==
    /\ Live
    /\ \E o \in pop(Self) :
        /\ roots' = o.heap.roots /\ top_index' = o.heap.top_index /\ len' = o.heap.len
        /\ ret' = o.ret
        /\ out' = IF o.ret.tag = "Some" THEN Insert(out, o.ret.val[1]) ELSE out
        /\ ended' = (ended \/ o.ret = None)
    /\ op' = "pop"
    /\ arg' = <<>>
    /\ UNCHANGED <<kind, start, n0>>

OtherPushedPartial(vec) ==
    {[heap |-> push(from_vec(vec), v).heap, vals |-> Append(vec, v)] : v \in PartialValues}

\* append with every other over PartialValues within the bounds
AppendPartial ==
    /\ Live
    /\ \E k \in 0..MaxOther :
          \/ /\ k <= MaxNodes - len
             /\ \E vec \in [1..k -> PartialValues] : \E x \in OtherPlain(vec) : Append_(x)
          \/ /\ k < MaxNodes - len /\ k < MaxOther
             /\ \E vec \in [1..k -> PartialValues] :
                   \E x \in OtherPushedPartial(vec) : Append_(x)
          \/ /\ k <= MaxNodes - len + 1
             /\ \E x \in UNION {OtherPopped(vec) : vec \in [1..k -> PartialValues]} :
                   Append_(x)

NextPartial ==
    \/ New
    \/ FromVecPartial
    \/ PushPartial
    \/ PopPartial
    \/ AppendPartial
    \/ IntoVec

SpecPartial == Init /\ [][NextPartial]_vars

\* the heap after the step
SelfNext == [roots |-> roots', top_index |-> top_index', len |-> len']

HasTree(h) == \E i \in DOMAIN h.roots : h.roots[i].children # <<>>

\* the vectors that hold the values of the ascending sequence seq
Arrangements(seq) ==
    {vec \in [1..Len(seq) -> {seq[i] : i \in DOMAIN seq}] : Ascending(vec) = seq}

\* ------------------------------------------------------------ type check
TypeOK ==
    /\ len \in Nat /\ top_index \in Nat
    /\ ret.tag \in {"None", "Some", "Vec", "Unit"}
    /\ kind \in {"new", "from_vec", "push", "append", "mixed", "moved"}

\* ---------------------------------------------------------------- claims

\* C1: from_vec(values) followed by pops until pop returns None returns
\* every input value exactly once, in non-decreasing order, whatever the
\* iteration order of deg_to_root in each pop (tests::pop and
\* examples/main.rs are instances).
C1_DrainFromVec ==
    kind = "from_vec" =>
        /\ IsSorted(out)
        /\ IsPrefix(out, start)
        /\ ended => out = start
        /\ (ended /\ start = Ascending(TestVecA)) => out = <<1, 3, 5, 9>>
        /\ (ended /\ start = Ascending(MainVec)) => out = [i \in 1..MainSize |-> i - 1]

C1_Witness ==
    /\ kind = "from_vec" /\ ended /\ op = "pop" /\ ret = None
    /\ out = [i \in 1..MainSize |-> i - 1]

\* C2: whenever len > 0, top_index < roots.len() and roots[top_index].value
\* is less than or equal to every value stored in the forest.
C2_TopIsMinimum ==
    len > 0 =>
        /\ top_index < Len(roots)
        /\ \A i \in DOMAIN ForestValues(roots) :
              roots[top_index + 1].value <= ForestValues(roots)[i]

C2_Witness ==
    /\ op = "append" /\ arg.self.len > 0 /\ arg.other.len > 0
    /\ HasTree(Self)
    /\ top_index + 1 < Len(roots)
    /\ \E i \in DOMAIN ForestValues(roots) :
          roots[top_index + 1].value < ForestValues(roots)[i]

\* C3: len equals the number of nodes of the whole forest, len == 0 holds
\* exactly when roots is empty, and deg_to_root is empty after the scan of
\* pop exactly when the heap holds one node.
C3_LenCountsNodes ==
    /\ len = Len(ForestValues(roots))
    /\ len = 0 <=> roots = <<>>
    /\ len > 0 => (DOMAIN Scan(Self).deg_to_root = {} <=> len = 1)

C3_Witness ==
    /\ op = "pop" /\ ret.tag = "Some" /\ len = 0 /\ roots = <<>>
    /\ Len(out) >= 3

\* C4: len() after from_vec(v) is v.len(); push increases len() by one; a
\* pop that returns Some decreases it by one; a.append(b) leaves a.len()
\* equal to the sum of the two lengths before the call.
C4_LenArithmetic ==
    [][/\ op' = "from_vec" => heap_len(SelfNext) = Len(arg')
       /\ op' = "push" => heap_len(SelfNext) = heap_len(Self) + 1
       /\ (op' = "pop" /\ ret'.tag = "Some") => heap_len(SelfNext) = heap_len(Self) - 1
       /\ op' = "append" =>
            /\ arg'.self = Self
            /\ heap_len(SelfNext) = heap_len(Self) + heap_len(arg'.other)]_vars

C4_Witness ==
    /\ op = "append" /\ arg.self.len >= 2 /\ arg.other.len >= 2
    /\ HasTree(arg.other)
    /\ len = arg.self.len + arg.other.len

\* C5: is_empty() holds iff len() == 0; top() and pop() return None exactly
\* then, also for new() and from_vec of an empty vector; a pop on an empty
\* heap returns None and leaves roots, top_index and len unchanged.
C5_EmptyIndicator ==
    [][/\ is_empty(Self) <=> heap_len(Self) = 0
       /\ op' = "top" => (ret' = None <=> heap_len(Self) = 0)
       /\ op' = "pop" =>
            /\ ret' = None <=> heap_len(Self) = 0
            /\ heap_len(Self) = 0 =>
                  roots' = roots /\ top_index' = top_index /\ len' = len
       /\ (op' = "new" \/ (op' = "from_vec" /\ arg' = <<>>)) =>
            /\ is_empty(SelfNext)
            /\ top(SelfNext) = None
            /\ pop(SelfNext) = {[ret |-> None, heap |-> SelfNext]}]_vars

C5_Witness ==
    /\ op = "pop" /\ ret = None /\ roots = <<>> /\ len = 0
    /\ kind = "from_vec" /\ n0 >= 2

\* C6: top() never changes roots, top_index or len, and in every non-empty
\* state the value top() returns is the value an immediately following pop
\* returns.
C6_TopThenPop ==
    [][/\ op' = "top" => roots' = roots /\ top_index' = top_index /\ len' = len
       /\ (op = "top" /\ op' = "pop" /\ len > 0) => ret' = ret
       /\ (op' = "top" /\ len > 0) => \A o \in pop(Self) : o.ret = ret']_vars

C6_Witness ==
    /\ op = "top" /\ ret.tag = "Some"
    /\ HasTree(Self)
    /\ top_index + 1 < Len(roots)

C8_AppendEmpty ==
    [][op' = "append" =>
         /\ is_empty(arg'.other) =>
              roots' = roots /\ top_index' = top_index /\ len' = len
         /\ (is_empty(Self) /\ ~is_empty(arg'.other)) => SelfNext = arg'.other]_vars

C8_Witness ==
    /\ op = "append" /\ is_empty(arg.other)
    /\ arg.self.len >= 3 /\ HasTree(arg.self)
    /\ Self = arg.self

\* C9: pushing values one at a time onto an empty heap and then draining
\* gives the sequence that draining from_vec of the same values gives: the
\* values in ascending order.  start holds the pushed values in ascending
\* order, so the drain is compared with the drains of from_vec of every
\* arrangement of them, the pushed one among these.
C9_PushLikeFromVec ==
    (kind = "push" /\ ended) =>
        /\ out = start
        /\ \A vec \in Arrangements(start) : into_vec(from_vec(vec)) = {out}

C9_Witness ==
    /\ kind = "push" /\ ended
    /\ Len(out) = MaxNodes /\ out[1] < out[Len(out)]

\* C10: from a heap with len = n, next (or into_vec) with no push or append
\* in between yields exactly n values and then None, and None ever after;
\* the values are non-decreasing, and into_vec returns the sequence the
\* iterator yields.
C10_IteratorDrain ==
    [][/\ Len(out) + len = n0
       /\ IsSorted(out)
       /\ ended => (len = 0 /\ Len(out) = n0)
       /\ op' = "pop" =>
            /\ ret' = None <=> Len(out) = n0
            /\ ended => (ret' = None /\ ended')
            /\ ret'.tag = "Some" => out' = Append(out, ret'.val[1])
       /\ op' = "into_vec" =>
            /\ Len(ret'.val) = len
            /\ IsSorted(ret'.val)
            /\ out \o ret'.val = start
       /\ ended => out = start]_vars

C10_Witness ==
    /\ op = "into_vec"
    /\ Len(ret.val) >= MaxNodes
    /\ ret.val[1] < ret.val[Len(ret.val)]

\* the state is in the scenario of tests::append: heap.append(heap2) has
\* been called and only pops have followed
InTestAppend == kind = "append" /\ start = Ascending(TestVecA \o TestVecB)

RECURSIVE HeapOrdered(_)

\* every node of the tree is less than or equal to each of its children
HeapOrdered(node) ==
    \A i \in DOMAIN node.children :
        /\ node.value <= node.children[i].value
        /\ HeapOrdered(node.children[i])

\* C12: in every state reachable by from_vec, push, pop and append, every
\* node's value is less than or equal to the value of each of its children.
C12_HeapOrder == \A i \in DOMAIN roots : HeapOrdered(roots[i])

C12_Witness ==
    /\ op = "pop"
    /\ \E i \in DOMAIN roots :
          /\ degree(roots[i]) >= 2
          /\ \E j \in DOMAIN roots[i].children :
                /\ roots[i].value < roots[i].children[j].value
                /\ roots[i].children[j].children # <<>>

\* the degrees of the roots of h
RootDegrees(h) == {degree(h.roots[i]) : i \in DOMAIN h.roots}

\* C13: immediately after any pop that leaves the heap non-empty, for every
\* iteration order of deg_to_root: the roots have pairwise distinct degrees,
\* roots.len() is the number of distinct degrees (the size of deg_to_root
\* after the scan), top_index == roots.len() - 1, and the last root holds a
\* minimum value of the heap.
C13_AfterPop ==
    [][(op' = "pop" /\ ret'.tag = "Some" /\ len' > 0) =>
         /\ \A i, j \in DOMAIN roots' :
               degree(roots'[i]) = degree(roots'[j]) => i = j
         /\ Len(roots') = Cardinality(RootDegrees(SelfNext))
         /\ Len(roots') = Cardinality(DOMAIN Scan(Self).deg_to_root)
         /\ top_index' = Len(roots') - 1
         /\ \A i \in DOMAIN ForestValues(roots') :
               roots'[Len(roots')].value <= ForestValues(roots')[i]]_vars

C13_Witness ==
    /\ op = "pop" /\ ret.tag = "Some" /\ len > 0
    /\ Len(roots) >= 2 /\ HasTree(Self)
    /\ top_index = Len(roots) - 1
    /\ roots[Len(roots)].value < roots[1].value

\* the minimum of vec[1..k], for 1 <= k <= Len(vec)
RunMin(vec, k) ==
    CHOOSE m \in {vec[j] : j \in 1..k} : \A j \in 1..k : m <= vec[j]

Larger(a, b) == IF a >= b THEN a ELSE b

\* C14: for every non-empty input of n values, from_vec returns a heap with
\* exactly n roots, all of degree 0, with top_index == n - 1 and len == n;
\* the last root holds a global minimum of the input, and root i < n - 1
\* holds the larger of input[i+1] and the minimum of input[0..=i] (indices
\* from 0; arg and roots are indexed from 1 here).
C14_FromVecShape ==
    (op = "from_vec" /\ arg # <<>>) =>
        LET n == Len(arg) IN
        /\ Len(roots) = n
        /\ \A i \in 1..n : degree(roots[i]) = 0
        /\ top_index = n - 1
        /\ roots[n].value = RunMin(arg, n)
        /\ \A i \in 1..(n - 1) :
              roots[i].value = Larger(arg[i + 1], RunMin(arg, i))

C14_Witness ==
    /\ op = "from_vec" /\ arg = TestVecA
    /\ [i \in DOMAIN roots |-> roots[i].value] = <<5, 3, 9, 1>>
    /\ top_index = 3

\* the item in the pending slot (min_cell) of from_vec(vec) after the loop
\* has taken vec[1..i]: the root that from_vec of that prefix pushes last
Pending(vec, i) == from_vec_by_key(SubSeq(vec, 1, i))[i].value

\* the item the loop emits as a root when it takes vec[i], i >= 2
Emitted(vec, i) == from_vec_by_key(vec)[i - 1].value

\* vec[i] compares equal to the item pending when the loop takes it
TieAt(vec, i) == i >= 2 /\ vec[i] = Pending(vec, i - 1).key

\* C15 as stated: on a tie the earlier-seen item stays pending and the
\* later-seen (incoming) one is emitted as a root.
C15_AsStated ==
    op = "from_vec" =>
        \A i \in DOMAIN arg :
            TieAt(arg, i) =>
                /\ Pending(arg, i) = Pending(arg, i - 1)
                /\ Emitted(arg, i).pos = i

\* C15, amended: on a tie no swap happens, so the item that was pending
\* (the earlier-seen) is emitted as a root and the incoming (later-seen)
\* item becomes pending.  The keys of the tagged roots are the roots of the
\* heap from_vec returned.
C15_TieKeepsIncoming ==
    op = "from_vec" =>
        /\ [i \in DOMAIN roots |-> roots[i].value]
              = [i \in DOMAIN arg |-> from_vec_by_key(arg)[i].value.key]
        /\ \A i \in DOMAIN arg :
              TieAt(arg, i) =>
                  /\ Emitted(arg, i) = Pending(arg, i - 1)
                  /\ Pending(arg, i).pos = i

C15_Witness ==
    /\ op = "from_vec" /\ Len(arg) >= 3
    /\ \E i \in DOMAIN arg :
          /\ TieAt(arg, i) /\ i < Len(arg)
          /\ Pending(arg, i).pos = i
          /\ Emitted(arg, i).pos < i

\* the least of the values stored in the non-empty heap h
MinValue(h) ==
    LET vals == ForestValues(h.roots) IN
    CHOOSE m \in {vals[i] : i \in DOMAIN vals} : \A i \in DOMAIN vals : m <= vals[i]

\* C16: when both heaps are non-empty, a.append(b) makes a.roots a's old
\* roots followed by b's roots, every tree unchanged, and sets a.top_index
\* to old a.roots.len() + b.top_index iff b's minimum is strictly smaller
\* than a's minimum, leaving it unchanged otherwise (also on a tie).
C16_AppendFrame ==
    [][(op' = "append" /\ ~is_empty(Self) /\ ~is_empty(arg'.other)) =>
         LET b == arg'.other IN
         /\ roots' = roots \o b.roots
         /\ top_index' = IF MinValue(b) < MinValue(Self)
                         THEN Len(roots) + b.top_index
                         ELSE top_index]_vars

\* after an append of two non-empty heaps that moved top_index, two roots
\* of the same degree, each with children, coexist
C16_Witness ==
    /\ op = "append" /\ ~is_empty(arg.self) /\ ~is_empty(arg.other)
    /\ top_index = Len(arg.self.roots) + arg.other.top_index
    /\ top_index # arg.self.top_index
    /\ \E i, j \in DOMAIN roots :
          /\ i <= Len(arg.self.roots) /\ j > Len(arg.self.roots)
          /\ degree(roots[i]) = degree(roots[j])
          /\ degree(roots[i]) >= 1

\* C17: push(v) appends one new degree-0 root holding v at the end of roots
\* and leaves every existing root, its position and its subtree unchanged;
\* top_index becomes the new root's index iff the heap was non-empty and v
\* is strictly smaller than the current minimum, and is unchanged otherwise:
\* on a tie the older minimum stays selected, and on an empty heap
\* top_index stays 0, the index of the new sole root.
C17_PushFrame ==
    [][op' = "push" =>
         LET v == arg' IN
         /\ ret' = Unit
         /\ roots' = Append(roots, [value |-> v, children |-> <<>>])
         /\ top_index' = IF ~is_empty(Self) /\ v < MinValue(Self)
                         THEN Len(roots)
                         ELSE top_index
         /\ is_empty(Self) => (top_index' = 0 /\ Len(roots') = 1)]_vars

\* a push onto a heap with a tree that moved top_index to the new root
C17_Witness ==
    /\ op = "push" /\ HasTree(Self)
    /\ Len(roots) >= 3 /\ top_index = Len(roots) - 1
    /\ roots[Len(roots)] = NodeNew(arg)
    /\ \A i \in 1..(Len(roots) - 1) : arg < roots[i].value

\* the nodes the scan of pop hands to map_update, in order: the roots
\* before top_index, the children of the root at top_index, the roots after
Candidates(h) ==
    SubSeq(h.roots, 1, h.top_index)
        \o h.roots[h.top_index + 1].children
        \o SubSeq(h.roots, h.top_index + 2, Len(h.roots))

\* deg_to_root when the scan hands its k-th candidate to map_update
MapBefore(h, k) == children_loop(<<>>, SubSeq(Candidates(h), 1, k - 1))

\* the chain of map_update calls for the k-th candidate
Calls(h, k) == map_update_calls(MapBefore(h, k), Candidates(h)[k])

RECURSIVE AbsorptionsUpTo(_, _)

\* the absorptions (recursive calls) for the first k candidates
AbsorptionsUpTo(h, k) ==
    IF k = 0 THEN 0 ELSE AbsorptionsUpTo(h, k - 1) + Len(Calls(h, k)) - 1

Absorptions(h) == AbsorptionsUpTo(h, Len(Candidates(h)))

\* C18: in every pop of a non-empty heap each call chain of map_update is
\* finite: every recursive step removes the map entry of the node's degree
\* and goes on with a node of degree one larger, and the chain ends with
\* the insert into a free slot; with c candidates (c >= 1, else map_update
\* is not called) the absorptions number c minus the roots pop leaves, at
\* most c - 1, and pop returns Some.
C18_CarryTerminates ==
    [][(op' = "pop" /\ len > 0) =>
         LET c == Len(Candidates(Self)) IN
         /\ c = Len(roots) - 1 + degree(roots[top_index + 1])
         /\ children_loop(<<>>, Candidates(Self)) = Scan(Self).deg_to_root
         /\ \A k \in 1..c :
              LET calls == Calls(Self, k)
                  last == calls[Len(calls)]
              IN  /\ Len(calls) <= Cardinality(DOMAIN MapBefore(Self, k)) + 1
                  /\ \A j \in 1..(Len(calls) - 1) :
                        /\ degree(calls[j].node) \in DOMAIN calls[j].deg_to_root
                        /\ DOMAIN calls[j + 1].deg_to_root
                              = DOMAIN calls[j].deg_to_root \ {degree(calls[j].node)}
                        /\ degree(calls[j + 1].node) = degree(calls[j].node) + 1
                  /\ degree(last.node) \notin DOMAIN last.deg_to_root
                  /\ DOMAIN MapBefore(Self, k + 1)
                        = DOMAIN last.deg_to_root \cup {degree(last.node)}
                  /\ MapBefore(Self, k + 1)[degree(last.node)] = last.node
         /\ c >= 1 => /\ Absorptions(Self) = c - Len(roots')
                      /\ Absorptions(Self) <= c - 1
         /\ c = 0 => Absorptions(Self) = 0
         /\ ret'.tag = "Some"]_vars

\* a pop with 8 candidates has merged them into one tree of degree 3 by 7
\* absorptions
C18_Witness ==
    /\ op = "pop" /\ ret.tag = "Some"
    /\ len = 8 /\ Len(roots) = 1 /\ degree(roots[1]) = 3

RECURSIVE Binomial(_), PopCount(_), FloorLog2(_)

\* node has 2^degree nodes below and including it, and its children have
\* degrees 0, 1, ..., degree - 1 in attachment order, each of them likewise
Binomial(node) ==
    /\ Len(NodeValues(node)) = 2 ^ degree(node)
    /\ \A i \in DOMAIN node.children :
          /\ degree(node.children[i]) = i - 1
          /\ Binomial(node.children[i])

\* the number of 1-bits of n
PopCount(n) == IF n = 0 THEN 0 ELSE (n % 2) + PopCount(n \div 2)

\* floor(log2(n)) for n >= 1
FloorLog2(n) == IF n <= 1 THEN 0 ELSE 1 + FloorLog2(n \div 2)

\* C20: in every reachable state each node of degree k is the root of a
\* subtree of exactly 2^k nodes whose children have degrees 0, ..., k-1 in
\* attachment order; right after a pop that leaves n > 0 elements the
\* number of roots is the number of 1-bits of n, at most floor(log2(n)) + 1.
C20_BinomialTrees ==
    /\ \A i \in DOMAIN roots : Binomial(roots[i])
    /\ (op = "pop" /\ len > 0) =>
          /\ Len(roots) = PopCount(len)
          /\ Len(roots) <= FloorLog2(len) + 1

C20_Witness ==
    /\ op = "pop" /\ len = 7 /\ Len(roots) = 3
    /\ \E i \in DOMAIN roots :
          /\ degree(roots[i]) = 2
          /\ degree(roots[i].children[2]) = 1

\* C19: with a comparison that is only partial (NaN is incomparable with
\* every value, so < and > both answer false), in every state reachable by
\* from_vec, push, pop, append and into_vec no operation has indexed
\* roots out of bounds (no Panic), top_index < roots.len() whenever len > 0,
\* len is the node count and never below 0, the stored values are the given
\* values not yet returned, and a full drain (by pops or by into_vec)
\* returns every stored value exactly once, in whatever order.
C19_PartialOrderSafe ==
    /\ ret.tag # "Panic"
    /\ len >= 0
    /\ len > 0 => top_index < Len(roots)
    /\ len = Len(ForestValues(roots))
    /\ Live =>
          /\ Ascending(ForestValues(roots)) = Remaining
          /\ Len(out) + len = n0
          /\ ended => (len = 0 /\ out = start)
          /\ \A vec \in into_vec(Self) : Ascending(vec) = Remaining

\* a pop has returned a value while a smaller one and NaN are still stored
C19_Witness ==
    /\ op = "pop" /\ ret.tag = "Some" /\ ret.val[1] # NaN
    /\ HasTree(Self)
    /\ \E i \in DOMAIN Remaining : Remaining[i] = NaN
    /\ \E i \in DOMAIN Remaining : Remaining[i] # NaN /\ Remaining[i] < ret.val[1]

====
